---- MODULE Spec2Model ----
(***************************************************************************)
(* AbyssGPT: the scoring engine (logic/scoring.py), the route graph and    *)
(* path solver (logic/pathfinding.py), the dataset lookups                 *)
(* (logic/data_loader.py), the query handler (logic/core.py) and the cell  *)
(* explanation (logic/explain.py).                                         *)
(*                                                                         *)
(* Numbers.  The program computes with floats.  Here every layer value is  *)
(* an integer number of tenths (severity 10 is 1.0), depth is in metres,   *)
(* coral cover in percent, and every score and cost is an integer number   *)
(* of millionths (base_step_cost 1.0 is 1000000).  The layer values of the *)
(* datasets below are chosen so that every product and quotient of the     *)
(* formulas is exact in these units.                                       *)
(***************************************************************************)
EXTENDS Integers, Sequences, FiniteSets, TLC

VARIABLES
    cell_index,      \* AbyssData.cell_index: (row, col) -> cell record
    cells_order,     \* the rows of cells.csv in file order (DataFrame.iterrows)
    hazard_index,    \* AbyssData.hazard_index: (row, col) -> list of records
    currents_index,  \* AbyssData.currents_index
    coral_index,     \* AbyssData.coral_index
    resource_index,  \* AbyssData.resource_index
    life_index,      \* AbyssData.life_index
    poi_index,       \* AbyssData.poi_index
    call,            \* the entry point last called, with its arguments
    ret              \* what that call returned (or raised)

data == <<cell_index, cells_order, hazard_index, currents_index,
          coral_index, resource_index, life_index, poi_index>>
vars == <<cell_index, cells_order, hazard_index, currents_index,
          coral_index, resource_index, life_index, poi_index, call, ret>>

(***************************************************************************)
(* Bound of the model: the survey grid has two rows and MaxCol columns     *)
(* (50 x 50 in the deployment).                                            *)
(***************************************************************************)
MaxCol == 3

Rows == {0, 1}
Cols == 0 .. (MaxCol - 1)
Coords == Rows \X Cols

\* Coordinates a query may name: every grid coordinate and one outside it.
OutOfGrid == <<0, MaxCol>>
QueryCoords == Coords \cup {OutOfGrid}

\* Mode strings a caller may ask for (intent.py produces the first four).
Modes == {"safe_route", "fast_route", "mining", "conservation", "balanced"}
RouteModes == {"safe_route", "fast_route"}
QueryModes == {"safe_route", "fast_route", "mining"}
\* Strings a caller of the scoring functions may pass as the mode.
ModeStrings == Modes \cup {"MINING", "Safe_Route", "scenic", ""}

Min(a, b) == IF a <= b THEN a ELSE b

RECURSIVE SumSeq(_)
SumSeq(s) == IF s = <<>> THEN 0 ELSE Head(s) + SumSeq(Tail(s))

(***************************************************************************)
(* data_loader.py: the lookups of AbyssData.                               *)
(***************************************************************************)
NoCell == [present |-> FALSE, depth_m |-> 0]

get_cell(row, col) ==
    IF <<row, col>> \in DOMAIN cell_index
    THEN [present |-> TRUE, depth_m |-> cell_index[<<row, col>>].depth_m]
    ELSE NoCell

Lookup(index, row, col) ==
    IF <<row, col>> \in DOMAIN index THEN index[<<row, col>>] ELSE <<>>

get_hazards(row, col) == Lookup(hazard_index, row, col)
get_corals(row, col) == Lookup(coral_index, row, col)
get_resources(row, col) == Lookup(resource_index, row, col)
get_life(row, col) == Lookup(life_index, row, col)
get_poi(row, col) == Lookup(poi_index, row, col)
get_currents(row, col) == Lookup(currents_index, row, col)

(***************************************************************************)
(* scoring.py                                                              *)
(***************************************************************************)
HazardTerm(hz) == hz.severity * 55000
ResourceTerm(r) == r.abundance * 35000 + r.economic_value * 50000 + r.purity * 15000
CoralTerm(c) == (c.health_index + c.biodiversity_index) * 40000
LifeTerm(sp) == sp.density * sp.threat_level * 2500
ExtractionTerm(r) == r.environmental_impact * 30000 + r.extraction_difficulty * 10000

\* (mutant) stability - 1 for 1 - stability
danger_score_stability_sign(cell, hazards, currents) ==
    LET depth_norm == (250000 * Min(cell.depth_m, 7000)) \div 7000
        hz == SumSeq([i \in 1 .. Len(hazards) |-> HazardTerm(hazards[i])])
        cur == IF currents # <<>>
               THEN currents[1].speed_mps * 3000 + (currents[1].stability - 10) * 25000
               ELSE 0
    IN depth_norm + hz + cur

\* (mutant) only the worst hazard counts
danger_score_worst_hazard(cell, hazards, currents) ==
    LET depth_norm == (250000 * Min(cell.depth_m, 7000)) \div 7000
        hz == IF hazards = <<>> THEN 0
              ELSE HazardTerm(hazards[CHOOSE i \in 1 .. Len(hazards) :
                       \A j \in 1 .. Len(hazards) : hazards[j].severity <= hazards[i].severity])
        cur == IF currents # <<>>
               THEN currents[1].speed_mps * 3000 + (10 - currents[1].stability) * 25000
               ELSE 0
    IN depth_norm + hz + cur

danger_score(cell, hazards, currents) ==
    LET depth_norm == (250000 * Min(cell.depth_m, 7000)) \div 7000
        hz == SumSeq([i \in 1 .. Len(hazards) |-> HazardTerm(hazards[i])])
        cur == IF currents # <<>>
               THEN currents[1].speed_mps * 3000 + (10 - currents[1].stability) * 25000
               ELSE 0
    IN depth_norm + hz + cur

(***************************************************************************)
(* The rows as the loader hands them over.  A field of a row is a number,  *)
(* None, a text that is no number, the float nan (what pandas gives for an *)
(* empty CSV field), or the key is missing from the row.                   *)
(***************************************************************************)
Num(n) == [tag |-> "num", v |-> n]
None == [tag |-> "None", v |-> 0]
Text == [tag |-> "text", v |-> 0]
NaN == [tag |-> "nan", v |-> 0]
Missing == [tag |-> "missing", v |-> 0]

\* dict.get(key, default): the default stands in for a missing key only.
Get(field, default) == IF field.tag = "missing" THEN Num(default) ELSE field

\* float(x), and 0.0 when float(x) raises: float(None) raises TypeError,
\* float("abc") raises ValueError, float(nan) is nan and raises nothing.
_f(x) ==
    CASE x.tag = "num" -> Num(x.v)
      [] x.tag = "nan" -> NaN
      [] OTHER -> Num(0)

\* danger_score on rows as read: every field goes through .get and _f, and a
\* nan among the values read makes every sum and product it enters, and
\* min(depth / 7000, 1.0), nan.  Only currents[0] is read.
danger_score_of_rows(cell, hazards, currents) ==
    LET depth == _f(Get(cell.depth_m, 0))
        severity == [i \in 1 .. Len(hazards) |-> _f(Get(hazards[i].severity, 0))]
        speed == IF currents # <<>> THEN _f(Get(currents[1].speed_mps, 0)) ELSE Num(0)
        stability == IF currents # <<>> THEN _f(Get(currents[1].stability, 10)) ELSE Num(10)
    IN IF \/ depth.tag = "nan" \/ speed.tag = "nan" \/ stability.tag = "nan"
          \/ \E i \in 1 .. Len(hazards) : severity[i].tag = "nan"
       THEN NaN
       ELSE Num(danger_score(
                [present |-> TRUE, depth_m |-> depth.v],
                [i \in 1 .. Len(hazards) |-> [type |-> hazards[i].type,
                                              severity |-> severity[i].v]],
                IF currents # <<>>
                THEN <<[speed_mps |-> speed.v, stability |-> stability.v]>>
                ELSE <<>>))

resource_score(resources) ==
    IF resources = <<>> THEN 0 ELSE SumSeq([i \in 1 .. Len(resources) |-> ResourceTerm(resources[i])])

eco_impact_score(corals, life, resources) ==
    SumSeq([i \in 1 .. Len(corals) |-> CoralTerm(corals[i])]) + SumSeq([i \in 1 .. Len(life) |-> LifeTerm(life[i])])
        + SumSeq([i \in 1 .. Len(resources) |-> ExtractionTerm(resources[i])])

\* str.lower() on the mode strings a caller may pass.
lower(mode) ==
    CASE mode = "MINING" -> "mining"
      [] mode = "Safe_Route" -> "safe_route"
      [] OTHER -> mode

\* (mutant) a mode that is none of the four returns 0.0
combined_score_no_default(danger, eco, resource, mode) ==
    LET m == lower(mode) IN
    CASE m = "mining" -> resource - (35 * danger) \div 100 - (55 * eco) \div 100
      [] m = "conservation" -> 0 - eco - (25 * danger) \div 100
      [] m = "safe_route" -> danger + (25 * eco) \div 100
      [] OTHER -> 0

\* (mutant) the danger term left out of the mining score
combined_score_mining_no_danger(danger, eco, resource, mode) ==
    LET m == lower(mode) IN
    CASE m = "mining" -> resource - (55 * eco) \div 100
      [] m = "conservation" -> 0 - eco - (25 * danger) \div 100
      [] m = "safe_route" -> danger + (25 * eco) \div 100
      [] m = "fast_route" -> 0
      [] OTHER -> resource - (25 * danger) \div 100 - (35 * eco) \div 100

combined_score(danger, eco, resource, mode) ==
    LET m == lower(mode) IN
    CASE m = "mining" -> resource - (35 * danger) \div 100 - (55 * eco) \div 100
      [] m = "conservation" -> 0 - eco - (25 * danger) \div 100
      [] m = "safe_route" -> danger + (25 * eco) \div 100
      [] m = "fast_route" -> 0
      [] OTHER -> resource - (25 * danger) \div 100 - (35 * eco) \div 100

\* float("inf") of score_cell and _route_cost is the pair (inf = TRUE, v = 0).
Inf == [inf |-> TRUE, v |-> 0]
Fin(x) == [inf |-> FALSE, v |-> x]

\* (mutant) fast_route answered 0.0 before the cell is looked up
score_cell_fast_first(row, col, mode) ==
    LET cell == get_cell(row, col) IN
    IF lower(mode) = "fast_route" THEN Fin(0)
    ELSE IF ~cell.present THEN Inf
    ELSE Fin(combined_score(
             danger_score(cell, get_hazards(row, col), get_currents(row, col)),
             eco_impact_score(get_corals(row, col), get_life(row, col),
                              get_resources(row, col)),
             resource_score(get_resources(row, col)),
             mode))

score_cell(row, col, mode) ==
    LET cell == get_cell(row, col) IN
    IF ~cell.present THEN Inf
    ELSE Fin(combined_score(
             danger_score(cell, get_hazards(row, col), get_currents(row, col)),
             eco_impact_score(get_corals(row, col), get_life(row, col),
                              get_resources(row, col)),
             resource_score(get_resources(row, col)),
             mode))

\* Weights in tenths.
adaptive_weights(cell) ==
    IF cell.depth_m > 4000 THEN [danger |-> 5, eco |-> 3, resource |-> 2]
    ELSE [danger |-> 3, eco |-> 5, resource |-> 2]

combined_score_with_weights(danger, eco, resource, weights) ==
    (resource * weights.resource - danger * weights.danger - eco * weights.eco) \div 10

danger_breakdown(cell, hazards, currents) ==
    [depth_m |-> cell.depth_m,
     hazard_count |-> Len(hazards),
     current_speed |-> IF currents # <<>> THEN currents[1].speed_mps ELSE 0,
     hazards_present |-> [i \in 1 .. Len(hazards) |-> hazards[i].type]]

(***************************************************************************)
(* explain.py.  The payload carries, next to the fields of the program's   *)
(* dictionary, the layers looked up and the scores evaluated on the way;   *)
(* the narrative text is one of two answers.                               *)
(***************************************************************************)
Layers == {"hazards", "corals", "resources", "life", "currents", "poi"}
Scores == {"danger_score", "resource_score", "eco_impact_score"}

Explanation(cell, row, col) ==
    LET hazards == get_hazards(row, col)
        corals == get_corals(row, col)
        resources == get_resources(row, col)
        life == get_life(row, col)
        currents == get_currents(row, col)
        danger == danger_score(cell, hazards, currents)
        resource == resource_score(resources)
        eco == eco_impact_score(corals, life, resources)
        combined == combined_score_with_weights(danger, eco, resource, adaptive_weights(cell))
    IN [intent |-> "EXPLAIN", answer |-> "narrative",
        highlights |-> <<[row |-> row, col |-> col]>>,
        stats |-> [danger |-> danger, ecoImpact |-> eco, resource |-> resource,
                   combined |-> combined],
        breakdown |-> [danger |-> danger_breakdown(cell, hazards, currents)],
        looked_up |-> Layers, evaluated |-> Scores, raised |-> "none"]

\* (mutant) no `if not cell` return
explain_cell_unguarded(row, col) == Explanation(get_cell(row, col), row, col)

explain_cell(row, col) ==
    LET cell == get_cell(row, col) IN
    IF ~cell.present
    THEN [intent |-> "EXPLAIN", answer |-> "not_found", highlights |-> <<>>, stats |-> <<>>,
          looked_up |-> {}, evaluated |-> {}, raised |-> "none"]
    ELSE Explanation(cell, row, col)

(***************************************************************************)
(* pathfinding.py                                                          *)
(***************************************************************************)
\* Allowed moves: down, up, right, left (no diagonals).
\* (mutant) one diagonal move among the allowed moves
DIRS_diagonal == <<<<1, 0>>, <<-1, 0>>, <<0, 1>>, <<1, 1>>>>

DIRS == <<<<1, 0>>, <<-1, 0>>, <<0, 1>>, <<0, -1>>>>

\* (mutant) the last row and the last column taken for out of bounds
_neighbours_short(coord, max_row, max_col) ==
    {<<coord[1] + DIRS[i][1], coord[2] + DIRS[i][2]>> : i \in
        {j \in 1 .. Len(DIRS) :
            /\ 0 <= coord[1] + DIRS[j][1] /\ coord[1] + DIRS[j][1] < max_row - 1
            /\ 0 <= coord[2] + DIRS[j][2] /\ coord[2] + DIRS[j][2] < max_col - 1}}

_neighbours(coord, max_row, max_col) ==
    {<<coord[1] + DIRS[i][1], coord[2] + DIRS[i][2]>> : i \in
        {j \in 1 .. Len(DIRS) :
            /\ 0 <= coord[1] + DIRS[j][1] /\ coord[1] + DIRS[j][1] < max_row
            /\ 0 <= coord[2] + DIRS[j][2] /\ coord[2] + DIRS[j][2] < max_col}}

\* The first of the records with the highest severity: max(hazards, key=...).
Worst(hazards) ==
    hazards[CHOOSE i \in 1 .. Len(hazards) :
                /\ \A j \in 1 .. Len(hazards) : hazards[j].severity <= hazards[i].severity
                /\ \A j \in 1 .. (i - 1) : hazards[j].severity < hazards[i].severity]

\* The dictionary the function fills: cell[key] = value writes `set @@ cell`,
\* cell.setdefault(key, value) writes `cell @@ default`.
Features(cell, hazards, corals, resources, currents) ==
    LET c1 == IF hazards # <<>>
              THEN [hazard_type |-> Worst(hazards).type,
                    hazard_severity |-> Worst(hazards).severity] @@ cell
              ELSE cell @@ [hazard_type |-> "None", hazard_severity |-> 0]
        c2 == IF corals # <<>>
              THEN [coral_cover_pct |-> corals[1].coral_cover_pct,
                    coral_health_index |-> corals[1].health_index,
                    biodiversity_index |-> corals[1].biodiversity_index] @@ c1
              ELSE c1 @@ [coral_cover_pct |-> 0, coral_health_index |-> 0,
                          biodiversity_index |-> 0]
        c3 == IF resources # <<>>
              THEN [resource_abundance |-> resources[1].abundance,
                    economic_value |-> resources[1].economic_value,
                    extraction_difficulty |-> resources[1].extraction_difficulty,
                    environmental_impact |-> resources[1].environmental_impact] @@ c2
              ELSE c2 @@ [resource_abundance |-> 0, economic_value |-> 0,
                          extraction_difficulty |-> 0, environmental_impact |-> 0]
    IN IF currents # <<>>
       THEN [current_speed_mps |-> currents[1].speed_mps,
             current_stability |-> currents[1].stability] @@ c3
       ELSE c3 @@ [current_speed_mps |-> 0, current_stability |-> 10]

\* (mutant) cell = base: the dictionary filled is the row of the cell index
_build_cell_features_in_place(row, col) ==
    IF <<row, col>> \notin DOMAIN cell_index
    THEN [present |-> FALSE, cell |-> <<>>, cell_index |-> cell_index]
    ELSE LET cell == Features(cell_index[<<row, col>>], get_hazards(row, col),
                              get_corals(row, col), get_resources(row, col),
                              get_currents(row, col))
         IN [present |-> TRUE, cell |-> cell,
             cell_index |-> [cell_index EXCEPT ![<<row, col>>] = cell]]

\* What the call returns (None: present = FALSE) and the cell index it leaves:
\* cell = dict(base) is a copy, so that the writes do not reach the index.
_build_cell_features(row, col) ==
    IF <<row, col>> \notin DOMAIN cell_index
    THEN [present |-> FALSE, cell |-> <<>>, cell_index |-> cell_index]
    ELSE [present |-> TRUE,
          cell |-> Features(cell_index[<<row, col>>], get_hazards(row, col),
                            get_corals(row, col), get_resources(row, col),
                            get_currents(row, col)),
          cell_index |-> cell_index]

base_step_cost == 1000000

\* (mutant) the step cost left out
_route_cost_no_step(coord) ==
    IF ~get_cell(coord[1], coord[2]).present THEN Inf
    ELSE Fin(score_cell(coord[1], coord[2], "safe_route").v)

\* The mode of the request is no parameter: the risk cost is always safe_route's.
_route_cost(coord) ==
    IF ~get_cell(coord[1], coord[2]).present THEN Inf
    ELSE Fin(base_step_cost + score_cell(coord[1], coord[2], "safe_route").v)

MaxOf(S) == CHOOSE x \in S : \A y \in S : y <= x

\* (mutant) neighbours without a Cell record not skipped
build_graph_no_skip ==
    LET max_row == MaxOf({k[1] : k \in DOMAIN cell_index}) + 1
        max_col == MaxOf({k[2] : k \in DOMAIN cell_index}) + 1
        nodes == DOMAIN cell_index
        edges == UNION {{<<coord, nb>> : nb \in _neighbours(coord, max_row, max_col)} :
                           coord \in nodes}
    IN [nodes |-> nodes, weight |-> [e \in edges |-> _route_cost(e[2]).v]]

\* The DiGraph: its nodes, and the weight of each directed edge <<u, v>>.
build_graph ==
    LET max_row == MaxOf({k[1] : k \in DOMAIN cell_index}) + 1
        max_col == MaxOf({k[2] : k \in DOMAIN cell_index}) + 1
        nodes == DOMAIN cell_index
        edges == UNION {{<<coord, nb>> : nb \in
                            {n \in _neighbours(coord, max_row, max_col) :
                                get_cell(n[1], n[2]).present}} : coord \in nodes}
    IN [nodes |-> nodes, weight |-> [e \in edges |-> _route_cost(e[2]).v]]

(***************************************************************************)
(* networkx: shortest_path(G, source, target, weight) is Dijkstra's        *)
(* algorithm; path_weight sums the weights of a path's edges.              *)
(***************************************************************************)
\* seen: node -> best distance found so far; final: the nodes settled.
RECURSIVE dijkstra(_, _, _)
dijkstra(G, seen, final) ==
    LET fringe == DOMAIN seen \ final IN
    IF fringe = {} THEN seen
    ELSE LET v == CHOOSE x \in fringe : \A y \in fringe : seen[x] <= seen[y]
             nbrs == {u \in G.nodes \ final : <<v, u>> \in DOMAIN G.weight}
             better == {u \in nbrs : u \notin DOMAIN seen
                                     \/ seen[v] + G.weight[<<v, u>>] < seen[u]}
         IN dijkstra(G,
                     [u \in DOMAIN seen \cup better |->
                         IF u \in better THEN seen[v] + G.weight[<<v, u>>] ELSE seen[u]],
                     final \cup {v})

\* The paths Dijkstra's predecessor links can spell from source to v: an edge
\* <<u, v>> is a predecessor link when it attains v's distance.  Which of several
\* equal-cost paths is returned depends on the heap's order.
RECURSIVE pred_paths(_, _, _, _)
pred_paths(G, dist, source, v) ==
    IF v = source THEN {<<source>>}
    ELSE UNION {{Append(p, v) : p \in pred_paths(G, dist, source, u)} :
                   u \in {w \in DOMAIN dist : /\ <<w, v>> \in DOMAIN G.weight
                                              /\ dist[w] + G.weight[<<w, v>>] = dist[v]}}

\* (mutant) the weight argument left out: every edge counts 1
shortest_path_unweighted(G, source, target) ==
    LET H == [nodes |-> G.nodes, weight |-> [e \in DOMAIN G.weight |-> 1]]
        dist == dijkstra(H, [u \in {source} |-> 0], {})
    IN IF target \notin DOMAIN dist THEN {}
       ELSE pred_paths(H, dist, source, target)

\* (mutant) source = target answered with a round trip through a neighbour
shortest_path_round_trip(G, source, target) ==
    LET dist == dijkstra(G, [u \in {source} |-> 0], {}) IN
    IF target \notin DOMAIN dist THEN {}
    ELSE IF source = target
         THEN {<<source, u, source>> : u \in {w \in G.nodes :
                                                 /\ <<source, w>> \in DOMAIN G.weight
                                                 /\ <<w, source>> \in DOMAIN G.weight}}
         ELSE pred_paths(G, dist, source, target)

\* The set of paths the call may return; empty when it raises NetworkXNoPath.
shortest_path(G, source, target) ==
    LET dist == dijkstra(G, [u \in {source} |-> 0], {}) IN
    IF target \notin DOMAIN dist THEN {}
    ELSE pred_paths(G, dist, source, target)

path_weight(G, path) ==
    SumSeq([i \in 1 .. (Len(path) - 1) |-> G.weight[<<path[i], path[i + 1]>>]])

\* What find_route(start, end, data) may return: path None is has_path = FALSE.
\* scored: the cells _route_cost was called on while the graph was built.
NoRoute(G) ==
    [has_path |-> FALSE, path |-> <<>>, cost |-> Inf, raised |-> "none",
     graph_built |-> TRUE, scored |-> {e[2] : e \in DOMAIN G.weight}]

\* (mutant) NetworkXNoPath not caught
route_in_uncaught(G, start, end) ==
    IF start \notin G.nodes \/ end \notin G.nodes THEN {NoRoute(G)}
    ELSE LET paths == shortest_path(G, start, end) IN
         IF paths = {}
         THEN {[has_path |-> FALSE, path |-> <<>>, cost |-> Inf,
                raised |-> "NetworkXNoPath", graph_built |-> TRUE,
                scored |-> {e[2] : e \in DOMAIN G.weight}]}
         ELSE {[has_path |-> TRUE, path |-> p, cost |-> Fin(path_weight(G, p)),
                raised |-> "none", graph_built |-> TRUE,
                scored |-> {e[2] : e \in DOMAIN G.weight}] : p \in paths}

route_in(G, start, end) ==
    IF start \notin G.nodes \/ end \notin G.nodes THEN {NoRoute(G)}
    ELSE LET paths == shortest_path(G, start, end) IN
         IF paths = {} THEN {NoRoute(G)}      \* except nx.NetworkXNoPath
         ELSE {[has_path |-> TRUE, path |-> p, cost |-> Fin(path_weight(G, p)),
                raised |-> "none", graph_built |-> TRUE,
                scored |-> {e[2] : e \in DOMAIN G.weight}] : p \in paths}

\* G = build_graph(data) comes first, whatever start and end are.
find_route(start, end) == UNION {route_in(G, start, end) : G \in {build_graph}}

(***************************************************************************)
(* core.py: the query handler's own scores, zone ranking and route stub.   *)
(***************************************************************************)
core_danger_score(cell, hazards, currents) ==
    LET hazard_severity == SumSeq([i \in 1 .. Len(hazards) |-> hazards[i].severity])
        instability == IF currents # <<>> THEN 10 - currents[1].stability ELSE 0
        depth_factor == (cell.depth_m * 500) \div 3     \* depth_m / 6000
    IN 60000 * hazard_severity + 30000 * instability + depth_factor \div 10

core_resource_score(resources) ==
    IF resources = <<>> THEN 0
    ELSE resources[1].economic_value * resources[1].abundance * 10000
             - resources[1].extraction_difficulty * 100000

core_eco_impact_score(corals, resources) ==
    LET coral_damage == IF corals # <<>>
                        THEN corals[1].coral_cover_pct * corals[1].health_index * 1000
                        ELSE 0
        extraction_impact == IF resources # <<>>
                             THEN resources[1].environmental_impact * 100000
                             ELSE 0
    IN coral_damage \div 2 + extraction_impact \div 2

\* combined = rs - 1.2*es - 0.5*ds, for one row of the cells table
core_combined(cell) ==
    LET rs == core_resource_score(get_resources(cell.row, cell.col))
        es == core_eco_impact_score(get_corals(cell.row, cell.col),
                                    get_resources(cell.row, cell.col))
        ds == core_danger_score(cell, get_hazards(cell.row, cell.col),
                                get_currents(cell.row, cell.col))
    IN rs - (12 * es) \div 10 - ds \div 2

\* numpy.argsort (default kind, not stable): every order of the indices in which
\* the scores ascend; indices of equal scores come in any order.
RECURSIVE argsort(_, _)
argsort(scored, left) ==
    IF left = {} THEN {<<>>}
    ELSE UNION {{<<i>> \o p : p \in argsort(scored, left \ {i})} :
                   i \in {j \in left : \A k \in left : scored[j] <= scored[k]}}

K == 5

\* s[-n:]
Tail_n(s, n) == SubSeq(s, IF Len(s) > n THEN Len(s) - n + 1 ELSE 1, Len(s))
\* (mutant) the order not reversed
Reverse_missing(s) == s
\* s[::-1]
Reverse(s) == [i \in 1 .. Len(s) |-> s[Len(s) + 1 - i]]

\* The grid dimensions written into scored.reshape(50, 50).
HeatRows == Cardinality(Rows)
HeatCols == MaxCol

\* ndarray.reshape(rows, cols).tolist(): row-major, by position in the array.
reshape(scored, rows, cols) ==
    [r \in 0 .. (rows - 1) |-> [c \in 0 .. (cols - 1) |-> scored[r * cols + c + 1]]]

\* The RECOMMEND_ZONES branch: the payloads it may return, or the raise.
recommend_zones ==
    LET scored == [i \in 1 .. Len(cells_order) |-> core_combined(cells_order[i])]
    IN {IF Len(scored) # HeatRows * HeatCols
        THEN [raised |-> "ValueError", highlights |-> <<>>, heatmap |-> <<>>]
        ELSE [raised |-> "none",
              highlights |-> [i \in 1 .. Len(top_idx) |->
                                 [row |-> cells_order[top_idx[i]].row,
                                  col |-> cells_order[top_idx[i]].col,
                                  score |-> scored[top_idx[i]]]],
              heatmap |-> reshape(scored, HeatRows, HeatCols)]
        : top_idx \in {Reverse(Tail_n(order, K)) :
                          order \in argsort(scored, 1 .. Len(scored))}}

\* The ROUTE branch: the first two coordinates of the query, else the default
\* corners; the path is the stub [start, end].
FarCorner == <<Cardinality(Rows) - 1, MaxCol - 1>>

route_stub(coords) ==
    LET start == IF Len(coords) >= 2 THEN coords[1] ELSE <<0, 0>>
        end == IF Len(coords) >= 2 THEN coords[2] ELSE FarCorner
    IN [start |-> start, end |-> end, has_path |-> TRUE, path |-> <<start, end>>,
        raised |-> "none", graph_built |-> FALSE, scored |-> {}]

(***************************************************************************)
(* The datasets.  AbyssData() loads the tables once; no call writes them.  *)
(* A dataset has a Cell record for every grid coordinate but at most       *)
(* MaxHoles of them, cells.csv in row-major or in column-major order, and  *)
(* at most one coordinate with sparse-layer records: a hazard site (five   *)
(* hazards, two currents) or a reef (two corals, two resources, one life   *)
(* record).                                                                *)
(***************************************************************************)
\* As many missing cells as cut a grid of this height in two.
MaxHoles == Cardinality(Rows)

DepthAt(coord) == 2100 * (coord[1] + coord[2])

HazardRecords ==
    <<[type |-> "vent", severity |-> 10], [type |-> "volcano", severity |-> 5],
      [type |-> "vent", severity |-> 10], [type |-> "slide", severity |-> 10],
      [type |-> "vent", severity |-> 10]>>
CurrentRecords ==
    <<[speed_mps |-> 20, stability |-> 4], [speed_mps |-> 50, stability |-> 0]>>
CoralRecords ==
    <<[coral_cover_pct |-> 60, health_index |-> 8, biodiversity_index |-> 6],
      [coral_cover_pct |-> 20, health_index |-> 4, biodiversity_index |-> 2]>>
ResourceRecords ==
    <<[abundance |-> 10, economic_value |-> 10, purity |-> 4,
       extraction_difficulty |-> 2, environmental_impact |-> 4],
      [abundance |-> 2, economic_value |-> 10, purity |-> 10,
       extraction_difficulty |-> 0, environmental_impact |-> 2]>>
LifeRecords == <<[density |-> 4, threat_level |-> 6]>>
PoiRecords == <<[category |-> "wreck", label |-> "Wreck"]>>

\* The sparse-layer tables of a hazard site and of a reef.
HazardSite == [hazards |-> HazardRecords, currents |-> CurrentRecords, corals |-> <<>>,
               resources |-> <<>>, life |-> <<>>, poi |-> <<>>]
Reef == [hazards |-> <<>>, currents |-> <<>>, corals |-> CoralRecords,
         resources |-> ResourceRecords, life |-> LifeRecords, poi |-> PoiRecords]

\* The elements of S as a sequence, by ascending key.
RECURSIVE SortedBy(_, _)
SortedBy(S, key) ==
    IF S = {} THEN <<>>
    ELSE LET x == CHOOSE y \in S : \A z \in S : key[y] <= key[z]
         IN <<x>> \o SortedBy(S \ {x}, key)

RowMajorKey == [coord \in Coords |-> coord[1] * MaxCol + coord[2]]
ColMajorKey == [coord \in Coords |-> coord[2] * Cardinality(Rows) + coord[1]]

CellRow(coord) == [row |-> coord[1], col |-> coord[2], depth_m |-> DepthAt(coord)]

\* build_cell_index: (row, col) -> the row of the cells table
build_cell_index(cells) ==
    [k \in {<<cells[i].row, cells[i].col>> : i \in 1 .. Len(cells)} |->
        LET i == CHOOSE j \in 1 .. Len(cells) :
                    /\ <<cells[j].row, cells[j].col>> = k
                    /\ \A l \in (j + 1) .. Len(cells) : <<cells[l].row, cells[l].col>> # k
        IN cells[i]]

Datasets(orders) ==
    {[holes |-> h, site |-> s, kind |-> k, order |-> o] :
        h \in {x \in SUBSET Coords : Cardinality(x) <= MaxHoles},
        s \in {x \in SUBSET Coords : Cardinality(x) <= 1},
        k \in {"hazard", "reef"}, o \in orders}

\* _build_simple_index: (row, col) -> the records of the table with that key,
\* for the keys that have a record.
_build_simple_index(site, records) == [k \in IF records # <<>> THEN site ELSE {} |-> records]

\* AbyssData(): cells.csv without the `holes`, in the given order, and the
\* sparse-layer tables `layers`, all of whose records are at the `site`.
LoadTables(holes, order, site, layers) ==
    /\ cells_order = [i \in 1 .. Cardinality(Coords \ holes) |->
                         CellRow((IF order = "row"
                                  THEN SortedBy(Coords \ holes, RowMajorKey)
                                  ELSE SortedBy(Coords \ holes, ColMajorKey))[i])]
    /\ cell_index = build_cell_index(cells_order)
    /\ hazard_index = _build_simple_index(site, layers.hazards)
    /\ currents_index = _build_simple_index(site, layers.currents)
    /\ coral_index = _build_simple_index(site, layers.corals)
    /\ resource_index = _build_simple_index(site, layers.resources)
    /\ life_index = _build_simple_index(site, layers.life)
    /\ poi_index = _build_simple_index(site, layers.poi)

Load(d) ==
    /\ d.site = {} => d.kind = "hazard"
    /\ LoadTables(d.holes, d.order, d.site, IF d.kind = "hazard" THEN HazardSite ELSE Reef)

NoCall == [op |-> "none", start |-> <<0, 0>>, end |-> <<0, 0>>, mode |-> "none"]
NoRet == [raised |-> "none"]

Init ==
    /\ \E d \in Datasets({"row"}) : Load(d)
    /\ call = NoCall
    /\ ret = NoRet

InitCore ==
    /\ \E d \in Datasets({"row", "col"}) : Load(d)
    /\ call = NoCall
    /\ ret = NoRet

\* The tables a survey site may have: no, one or several hazards (of severity
\* 0.0 to 1.0), no, one or several currents (of stability 0.0 to 1.0, and one
\* of stability 6.0, which no loader check rejects), with or without the reef's
\* records.
HazardSamples ==
    {<<>>, HazardRecords,
     <<[type |-> "vent", severity |-> 0], [type |-> "slide", severity |-> 10]>>}
CurrentSamples ==
    {<<>>, CurrentRecords, <<[speed_mps |-> 0, stability |-> 10]>>,
     <<[speed_mps |-> 0, stability |-> 60]>>}
SiteSamples ==
    {[hazards |-> h, currents |-> c, corals |-> r.corals, resources |-> r.resources,
      life |-> r.life, poi |-> r.poi] :
        h \in HazardSamples, c \in CurrentSamples, r \in {HazardSite, Reef}}

InitLayers ==
    /\ \E holes \in {x \in SUBSET Coords : Cardinality(x) <= MaxHoles},
          site \in {x \in SUBSET Coords : Cardinality(x) <= 1},
          layers \in SiteSamples :
           LoadTables(holes, "row", site, layers)
    /\ call = NoCall
    /\ ret = NoRet

\* The scoring functions are called on values, whatever the dataset.
InitScore ==
    /\ LoadTables({}, "row", {}, HazardSite)
    /\ call = NoCall
    /\ ret = NoRet

\* Arguments of the scoring functions: scores in millionths, depths in metres.
DangerSamples == {0, 300000, 2760000}
EcoSamples == {0, 400000, 1060000}
ResourceSamples == {0, 1630000}
DepthSamples == {0, 2100, 7000, 9100}

\* Fields of rows as read: a number, or one of the values that are none.
RawSamples(n) == {Num(n), None, Text, NaN, Missing}

(***************************************************************************)
(* The calls.  Queries are served one at a time: a call is made when no    *)
(* call is in progress, and its result is handed to the caller before the  *)
(* next one.                                                               *)
(***************************************************************************)
\* find_route(start, end, data), for a request that asked for `mode`.
FindRoute(start, end, mode) ==
    /\ call.op = "none"
    /\ call' = [op |-> "find_route", start |-> start, end |-> end, mode |-> mode]
    /\ ret' \in find_route(start, end)
    /\ UNCHANGED data

\* handle_query(query) with ROUTE intent; coords: the coordinates in the query.
HandleQueryRoute(coords) ==
    LET r == route_stub(coords) IN
    /\ call.op = "none"
    /\ call' = [op |-> "handle_query_route", start |-> r.start, end |-> r.end,
                mode |-> "safe_route"]
    /\ ret' = [has_path |-> r.has_path, path |-> r.path, raised |-> r.raised,
               graph_built |-> r.graph_built, scored |-> r.scored]
    /\ UNCHANGED data

\* handle_query(query) with RECOMMEND_ZONES intent, for a request naming `mode`.
HandleQueryRecommend(mode) ==
    /\ call.op = "none"
    /\ call' = [op |-> "handle_query_recommend", start |-> <<0, 0>>, end |-> <<0, 0>>,
                mode |-> mode]
    /\ ret' \in recommend_zones
    /\ UNCHANGED data

\* build_graph(data), for a request that asked for `mode`.
BuildGraph(mode) ==
    /\ call.op = "none"
    /\ call' = [op |-> "build_graph", start |-> <<0, 0>>, end |-> <<0, 0>>, mode |-> mode]
    /\ ret' = [raised |-> "none", graph |-> build_graph]
    /\ UNCHANGED data

\* score_cell(data, row, col, mode)
ScoreCell(coord, mode) ==
    /\ call.op = "none"
    /\ call' = [op |-> "score_cell", start |-> coord, end |-> coord, mode |-> mode]
    /\ ret' = [raised |-> "none", value |-> score_cell(coord[1], coord[2], mode)]
    /\ UNCHANGED data

\* explain_cell(data, row, col)
ExplainCell(coord) ==
    /\ call.op = "none"
    /\ call' = [op |-> "explain_cell", start |-> coord, end |-> coord, mode |-> "none"]
    /\ ret' = explain_cell(coord[1], coord[2])
    /\ UNCHANGED data

\* _build_cell_features(row, col, data)
BuildCellFeatures(coord) ==
    LET r == _build_cell_features(coord[1], coord[2]) IN
    /\ call.op = "none"
    /\ call' = [op |-> "_build_cell_features", start |-> coord, end |-> coord,
                mode |-> "none"]
    /\ ret' = [raised |-> "none", present |-> r.present, cell |-> r.cell]
    /\ cell_index' = r.cell_index
    /\ UNCHANGED <<cells_order, hazard_index, currents_index, coral_index,
                   resource_index, life_index, poi_index>>

\* combined_score(danger, eco, resource, mode)
CombinedScore(danger, eco, resource, mode) ==
    /\ call.op = "none"
    /\ call' = [op |-> "combined_score", danger |-> danger, eco |-> eco,
                resource |-> resource, mode |-> mode]
    /\ ret' = [raised |-> "none", value |-> combined_score(danger, eco, resource, mode)]
    /\ UNCHANGED data

\* danger_score(cell, hazards, currents)
DangerScore(cell, hazards, currents) ==
    /\ call.op = "none"
    /\ call' = [op |-> "danger_score", cell |-> cell, hazards |-> hazards,
                currents |-> currents]
    /\ ret' = [raised |-> "none", value |-> danger_score(cell, hazards, currents)]
    /\ UNCHANGED data

\* danger_score(cell, hazards, currents) on rows as read from the tables
DangerScoreOfRows(cell, hazards, currents) ==
    /\ call.op = "none"
    /\ call' = [op |-> "danger_score_of_rows", cell |-> cell, hazards |-> hazards,
                currents |-> currents]
    /\ ret' = [raised |-> "none", value |-> danger_score_of_rows(cell, hazards, currents)]
    /\ UNCHANGED data

\* The caller takes the result; the next query may be asked.
Return ==
    /\ call.op # "none"
    /\ call' = NoCall
    /\ ret' = NoRet
    /\ UNCHANGED data

\* The path solver's entry point.
Next ==
    \/ \E start \in QueryCoords, end \in QueryCoords, mode \in QueryModes :
           FindRoute(start, end, mode)
    \/ Return

Spec == Init /\ [][Next]_vars

\* The query handler's entry point.
NextCore ==
    \/ \E coords \in {<<>>} \cup {<<s, e>> : s \in QueryCoords, e \in QueryCoords} :
           HandleQueryRoute(coords)
    \/ \E mode \in {"mining", "conservation", "safe_route"} : HandleQueryRecommend(mode)
    \/ Return

SpecCore == InitCore /\ [][NextCore]_vars

\* The entry points that read one cell or build the graph.
NextLayers ==
    \/ \E mode \in QueryModes : BuildGraph(mode)
    \/ \E coord \in QueryCoords, mode \in Modes : ScoreCell(coord, mode)
    \/ \E coord \in QueryCoords : ExplainCell(coord)
    \/ \E coord \in QueryCoords : BuildCellFeatures(coord)
    \/ Return

SpecLayers == InitLayers /\ [][NextLayers]_vars

\* The scoring functions called on values.
NextScore ==
    \/ \E danger \in DangerSamples, eco \in EcoSamples, resource \in ResourceSamples,
          mode \in ModeStrings :
           CombinedScore(danger, eco, resource, mode)
    \/ \E depth_m \in DepthSamples, hazards \in HazardSamples, currents \in CurrentSamples :
           DangerScore([present |-> TRUE, depth_m |-> depth_m], hazards, currents)
    \/ \E depth_m \in RawSamples(2100), severity \in RawSamples(5),
          speed_mps \in RawSamples(20), stability \in RawSamples(4),
          has_current \in BOOLEAN :
           DangerScoreOfRows([depth_m |-> depth_m],
                             <<[type |-> "vent", severity |-> severity]>>,
                             IF has_current
                             THEN <<[speed_mps |-> speed_mps, stability |-> stability],
                                    [speed_mps |-> NaN, stability |-> NaN]>>
                             ELSE <<>>)
    \/ Return

SpecScore == InitScore /\ [][NextScore]_vars

\* Every entry point, in any order.
NextAny ==
    \/ \E start \in QueryCoords, end \in QueryCoords, mode \in QueryModes :
           FindRoute(start, end, mode)
    \/ \E coords \in {<<>>} \cup {<<s, e>> : s \in QueryCoords, e \in QueryCoords} :
           HandleQueryRoute(coords)
    \/ \E mode \in {"mining", "conservation", "safe_route"} : HandleQueryRecommend(mode)
    \/ \E mode \in QueryModes : BuildGraph(mode)
    \/ \E coord \in QueryCoords, mode \in Modes : ScoreCell(coord, mode)
    \/ \E coord \in QueryCoords : ExplainCell(coord)
    \/ \E coord \in QueryCoords : BuildCellFeatures(coord)
    \/ Return

SpecAny == Init /\ [][NextAny]_vars

(***************************************************************************)
(* Properties.  What they compare the results with is computed from the    *)
(* dataset alone: the cells that have a record, 4-neighbour steps between  *)
(* them, and the cost 1.0 + score of each cell entered.                    *)
(***************************************************************************)
HasCell(coord) == coord \in DOMAIN cell_index

Abs(x) == IF x < 0 THEN 0 - x ELSE x
Step(a, b) == Abs(a[1] - b[1]) + Abs(a[2] - b[2]) = 1

\* Every path without repeated cells that extends `p` to `end`.
RECURSIVE Extensions(_, _)
Extensions(p, end) ==
    IF p[Len(p)] = end THEN {p}
    ELSE UNION {Extensions(Append(p, n), end) :
                   n \in {m \in DOMAIN cell_index :
                             /\ Step(p[Len(p)], m)
                             /\ \A i \in 1 .. Len(p) : p[i] # m}}

AllPaths(start, end) ==
    IF HasCell(start) /\ HasCell(end) THEN Extensions(<<start>>, end) ELSE {}

EnterCost(coord, mode) == base_step_cost + score_cell(coord[1], coord[2], mode).v
CostOf(p, mode) == SumSeq([i \in 1 .. (Len(p) - 1) |-> EnterCost(p[i + 1], mode)])

Routed == call.op = "find_route"

\* C1: between two cells that have a record and are connected, find_route returns
\* a path, and its total cost is at most the summed edge weight of every
\* start-to-end path of the graph.
C1_MinimumCost ==
    Routed =>
        \A p \in AllPaths(call.start, call.end) :
            /\ ret.has_path
            /\ ~ret.cost.inf
            /\ ret.cost.v <= CostOf(p, "safe_route")

\* The returned path is strictly cheaper than a path with fewer cells.
C1_Witness ==
    /\ Routed /\ ret.has_path
    /\ \E p \in AllPaths(call.start, call.end) :
           Len(p) < Len(ret.path) /\ ret.cost.v < CostOf(p, "safe_route")

C3_PathWellFormed ==
    (Routed /\ ret.has_path) =>
        /\ Len(ret.path) >= 1
        /\ ret.path[1] = call.start
        /\ ret.path[Len(ret.path)] = call.end
        /\ \A i \in 1 .. Len(ret.path) : HasCell(ret.path[i])
        /\ \A i \in 1 .. (Len(ret.path) - 1) : Step(ret.path[i], ret.path[i + 1])

\* A returned path that turns a corner around a missing cell.
C3_Witness ==
    /\ Routed /\ ret.has_path /\ Len(ret.path) >= 4
    /\ \E i \in 1 .. (Len(ret.path) - 2) :
           /\ ret.path[i][1] # ret.path[i + 2][1]
           /\ ret.path[i][2] # ret.path[i + 2][2]
    /\ DOMAIN cell_index # Coords

\* C4: when an endpoint is not in the graph, or both are and no path connects
\* them, find_route returns path None with cost +infinity and raises nothing.
C4_NoPathIsAValue ==
    (Routed /\ AllPaths(call.start, call.end) = {}) =>
        /\ ~ret.has_path
        /\ ret.cost.inf
        /\ ret.raised = "none"

\* Both endpoints have a record, no path connects them, and None came back.
C4_Witness ==
    /\ Routed /\ HasCell(call.start) /\ HasCell(call.end)
    /\ AllPaths(call.start, call.end) = {}
    /\ ~ret.has_path /\ ret.cost.inf

\* C5: a route request whose start or end has no Cell record (or is out of the
\* grid) is rejected with CellNotFound before a graph is built or a cell is
\* scored, and no path is returned.
C5_RejectedAtEntry ==
    (Routed /\ (~HasCell(call.start) \/ ~HasCell(call.end))) =>
        /\ ret.raised = "CellNotFound"
        /\ ~ret.graph_built
        /\ ret.scored = {}
        /\ ~ret.has_path

\* C6: find_route(c, c) of a cell c that has a record returns the path [c] with
\* total cost 0.
C6_DegenerateRoute ==
    (Routed /\ call.start = call.end /\ HasCell(call.start)) =>
        /\ ret.has_path
        /\ ret.path = <<call.start>>
        /\ ret.cost = Fin(0)

\* find_route(c, c) returned for the hazard site c, whose entry cost is not 0.
C6_Witness ==
    /\ Routed /\ call.start = call.end /\ HasCell(call.start)
    /\ call.start \in DOMAIN hazard_index
    /\ ret.has_path /\ Len(ret.path) = 1

\* C7: for a fast_route request the returned path has the fewest nodes of all
\* start-to-end paths.
C7_FastRouteFewestNodes ==
    (Routed /\ call.mode = "fast_route" /\ ret.has_path) =>
        \A p \in AllPaths(call.start, call.end) : Len(ret.path) <= Len(p)

\* C8: a route request whose mode is neither safe_route nor fast_route is
\* rejected with UnsupportedMode, never answered as if it were safe_route.
C8_UnsupportedModeRejected ==
    (Routed /\ call.mode \notin RouteModes) =>
        /\ ret.raised = "UnsupportedMode"
        /\ ~ret.has_path

Ranked == call.op = "handle_query_recommend"

\* The score the ranking gives the cell at a coordinate.
ZoneScore(coord) == core_combined(cell_index[coord])
MaxZoneScore == CHOOSE x \in {ZoneScore(k) : k \in DOMAIN cell_index} :
                    \A k \in DOMAIN cell_index : ZoneScore(k) <= x

HighlightCoords == {<<ret.highlights[i].row, ret.highlights[i].col>> :
                       i \in 1 .. Len(ret.highlights)}

\* The highlights are min(K, number of cells) different cells, each with its own
\* score, and no cell left out scores strictly higher than one of them.
TopK ==
    /\ Len(ret.highlights) = Min(K, Cardinality(DOMAIN cell_index))
    /\ Cardinality(HighlightCoords) = Len(ret.highlights)
    /\ \A i \in 1 .. Len(ret.highlights) :
           /\ HasCell(<<ret.highlights[i].row, ret.highlights[i].col>>)
           /\ ret.highlights[i].score
                  = ZoneScore(<<ret.highlights[i].row, ret.highlights[i].col>>)
    /\ \A k \in DOMAIN cell_index \ HighlightCoords :
           \A i \in 1 .. Len(ret.highlights) : ZoneScore(k) <= ret.highlights[i].score

C10_HeatmapByCoordinate ==
    Ranked =>
        /\ ret.raised = "none"
        /\ DOMAIN ret.heatmap = 0 .. (HeatRows - 1)
        /\ \A r \in Rows : DOMAIN ret.heatmap[r] = 0 .. (HeatCols - 1)
        /\ \A k \in Coords :
               ret.heatmap[k[1]][k[2]] = IF HasCell(k) THEN ZoneScore(k) ELSE 0

\* C11: the score the ranking assigns to a cell under a mode is
\* score_cell(data, row, col, mode): combined_score applied to the cell's
\* danger_score, eco_impact_score and resource_score, the scores routing uses.
C11_RankingUsesScoreCell ==
    (Ranked /\ ret.raised = "none") =>
        \A i \in 1 .. Len(ret.highlights) :
            ret.highlights[i].score
                = score_cell(ret.highlights[i].row, ret.highlights[i].col, call.mode).v

\* C12: no explain, route, ranking, scoring, graph-building or feature-building
\* call changes the dataset: after every step the cell index, the file order of
\* the cells and every sparse layer index equal their values before it, the
\* records they contain included.
C12_DatasetUnchanged ==
    [][/\ cell_index' = cell_index
       /\ cells_order' = cells_order
       /\ hazard_index' = hazard_index
       /\ currents_index' = currents_index
       /\ coral_index' = coral_index
       /\ resource_index' = resource_index
       /\ life_index' = life_index
       /\ poi_index' = poi_index]_vars

\* Features were built for the reef or the hazard site: the returned dictionary
\* has the keys written from the sparse layers, the cell's row in the index has
\* not.
C12_Witness ==
    /\ call.op = "_build_cell_features" /\ ret.present
    /\ call.start \in DOMAIN hazard_index \cup DOMAIN coral_index
    /\ "hazard_severity" \in DOMAIN ret.cell
    /\ DOMAIN cell_index[call.start] = {"row", "col", "depth_m"}

Explained == call.op = "explain_cell"

\* C13: explain_cell of a coordinate without a Cell record returns the not-found
\* answer with empty highlights and empty stats, and looks up no layer and
\* evaluates none of danger_score, resource_score and eco_impact_score.
C13_NotFoundBeforeScoring ==
    (Explained /\ ~HasCell(call.start)) =>
        /\ ret.raised = "none"
        /\ ret.answer = "not_found"
        /\ ret.highlights = <<>>
        /\ DOMAIN ret.stats = {}
        /\ ret.looked_up = {}
        /\ ret.evaluated = {}

\* The coordinate explained is in the grid, has hazard records and no Cell
\* record, and the not-found answer came back.
C13_Witness ==
    /\ Explained /\ ~HasCell(call.start)
    /\ call.start \in Coords
    /\ call.start \in DOMAIN hazard_index
    /\ ret.answer = "not_found"

Combined == call.op = "combined_score"

\* The result is the balanced score of the arguments.
IsBalanced == 100 * ret.value = 100 * call.resource - 25 * call.danger - 35 * call.eco

\* The result is the score of mode m, one of the five, of the arguments.
IsScoreOf(m) ==
    /\ m = "mining" => 100 * ret.value = 100 * call.resource - 35 * call.danger - 55 * call.eco
    /\ m = "conservation" => 100 * ret.value = 0 - 100 * call.eco - 25 * call.danger
    /\ m = "safe_route" => 100 * ret.value = 100 * call.danger + 25 * call.eco
    /\ m = "fast_route" => ret.value = 0
    /\ m = "balanced" => IsBalanced

\* C14 as stated: combined_score is resource - 0.35*danger - 0.55*eco for mining,
\* -eco - 0.25*danger for conservation, danger + 0.25*eco for safe_route, 0 for
\* fast_route, resource - 0.25*danger - 0.35*eco for balanced, and the balanced
\* value for every mode string that is none of these five.
C14_ModeOutsideFiveIsBalanced ==
    Combined =>
        /\ call.mode \in Modes => IsScoreOf(call.mode)
        /\ call.mode \notin Modes => IsBalanced

\* C14, amended: the mode is matched whatever its case: a mode string that is
\* one of the five once lower-cased yields that mode's value, and every other
\* mode string yields the balanced value.
C14_ModeMatchedInLowerCase ==
    Combined =>
        /\ lower(call.mode) \in Modes => IsScoreOf(lower(call.mode))
        /\ lower(call.mode) \notin Modes => IsBalanced

\* A mode that is none of the five in any case, positive arguments, and a result
\* that is not what another mode would give.
C14_Witness ==
    /\ Combined /\ lower(call.mode) \notin Modes
    /\ call.danger > 0 /\ call.eco > 0 /\ call.resource > 0
    /\ IsBalanced
    /\ 100 * ret.value # 100 * call.resource - 35 * call.danger - 55 * call.eco
    /\ ret.value # 0

\* C15: for fixed eco and resource, the mining score and the balanced score are
\* strictly smaller, and the safe_route score strictly larger, at every danger
\* above the one scored.
C15_MonotoneInDanger ==
    Combined =>
        \A danger2 \in DangerSamples :
            danger2 > call.danger =>
                /\ call.mode \in {"mining", "balanced"} =>
                       combined_score(danger2, call.eco, call.resource, call.mode) < ret.value
                /\ call.mode = "safe_route" =>
                       combined_score(danger2, call.eco, call.resource, call.mode) > ret.value

\* A mining score with positive eco and resource, at a danger that is not the
\* highest, strictly above the mining score of the highest danger.
C15_Witness ==
    /\ Combined /\ call.mode = "mining"
    /\ call.eco > 0 /\ call.resource > 0
    /\ \E danger2 \in DangerSamples :
           /\ danger2 > call.danger
           /\ combined_score(danger2, call.eco, call.resource, "mining") < ret.value

Dangered == call.op = "danger_score"

\* 0.25 * min(depth / 7000, 1), in millionths
DepthShare(depth_m) == IF depth_m >= 7000 THEN 250000 ELSE (250000 * depth_m) \div 7000

\* 0.15 * (speed / 5) + 0.25 * (1 - stability) of one Current record
CurrentShare(c) == 3000 * c.speed_mps + 250000 - 25000 * c.stability

\* C16: danger_score is 0.25*min(depth/7000, 1), plus 0.55 times the sum of the
\* severities of all the hazard records, plus the current term of the first
\* Current record only: the records after the first do not change the result,
\* and without a Current record the term is 0.
C16_DangerAggregation ==
    Dangered =>
        /\ ret.value = DepthShare(call.cell.depth_m)
                       + 55000 * SumSeq([i \in 1 .. Len(call.hazards) |->
                                            call.hazards[i].severity])
                       + (IF call.currents = <<>> THEN 0 ELSE CurrentShare(call.currents[1]))
        /\ call.currents # <<>> =>
               ret.value = danger_score(call.cell, call.hazards, <<call.currents[1]>>)

\* Several hazards of different severities and two different Current records
\* were scored, at a depth below the cap.
C16_Witness ==
    /\ Dangered
    /\ Len(call.hazards) >= 2 /\ call.hazards[1].severity # call.hazards[2].severity
    /\ Len(call.currents) >= 2 /\ call.currents[1] # call.currents[2]
    /\ call.cell.depth_m > 0 /\ call.cell.depth_m < 7000
    /\ ret.value > DepthShare(call.cell.depth_m) + CurrentShare(call.currents[1])

GraphBuilt == call.op = "build_graph"

\* Every layer value is in its documented range (tenths: 10 is 1.0).
InRange ==
    /\ \A k \in DOMAIN cell_index : cell_index[k].depth_m >= 0
    /\ \A k \in DOMAIN hazard_index : \A i \in 1 .. Len(hazard_index[k]) :
           hazard_index[k][i].severity \in 0 .. 10
    /\ \A k \in DOMAIN currents_index : \A i \in 1 .. Len(currents_index[k]) :
           /\ currents_index[k][i].speed_mps >= 0
           /\ currents_index[k][i].stability \in 0 .. 10
    /\ \A k \in DOMAIN coral_index : \A i \in 1 .. Len(coral_index[k]) :
           /\ coral_index[k][i].coral_cover_pct >= 0
           /\ coral_index[k][i].health_index >= 0
           /\ coral_index[k][i].biodiversity_index >= 0
    /\ \A k \in DOMAIN resource_index : \A i \in 1 .. Len(resource_index[k]) :
           /\ resource_index[k][i].abundance >= 0
           /\ resource_index[k][i].economic_value >= 0
           /\ resource_index[k][i].purity >= 0
           /\ resource_index[k][i].extraction_difficulty >= 0
           /\ resource_index[k][i].environmental_impact >= 0
    /\ \A k \in DOMAIN life_index : \A i \in 1 .. Len(life_index[k]) :
           /\ life_index[k][i].density >= 0
           /\ life_index[k][i].threat_level >= 0

\* C17: when every layer value lies in its documented range, danger_score,
\* resource_score and eco_impact_score of every cell are finite and at least 0,
\* and every edge weight of the built graph is at least 1.0.
C17_ScoresNonNegative ==
    (GraphBuilt /\ InRange) =>
        /\ \A k \in DOMAIN cell_index :
               /\ danger_score(get_cell(k[1], k[2]), get_hazards(k[1], k[2]),
                               get_currents(k[1], k[2])) >= 0
               /\ resource_score(get_resources(k[1], k[2])) >= 0
               /\ eco_impact_score(get_corals(k[1], k[2]), get_life(k[1], k[2]),
                                   get_resources(k[1], k[2])) >= 0
        /\ \A e \in DOMAIN ret.graph.weight : ret.graph.weight[e] >= base_step_cost

\* A graph was built over in-range values with an edge into a cell that has a
\* current, and that edge weighs more than the step cost.
C17_Witness ==
    /\ GraphBuilt /\ InRange
    /\ \E e \in DOMAIN ret.graph.weight :
           /\ e[2] \in DOMAIN currents_index
           /\ ret.graph.weight[e] > base_step_cost

Scored == call.op = "score_cell"

\* C18: score_cell raises nothing; it returns +infinity exactly when the
\* coordinate has no Cell record, under every mode, fast_route included; when
\* the record exists it returns the finite combined_score, under the mode, of
\* the danger, eco-impact and resource scores of the coordinate's records.
C18_InfinityIffNoCell ==
    Scored =>
        LET k == call.start IN
        /\ ret.raised = "none"
        /\ ret.value.inf <=> ~HasCell(k)
        /\ HasCell(k) =>
               ret.value.v =
                   combined_score(
                       danger_score(cell_index[k], Lookup(hazard_index, k[1], k[2]),
                                    Lookup(currents_index, k[1], k[2])),
                       eco_impact_score(Lookup(coral_index, k[1], k[2]),
                                        Lookup(life_index, k[1], k[2]),
                                        Lookup(resource_index, k[1], k[2])),
                       resource_score(Lookup(resource_index, k[1], k[2])),
                       call.mode)

\* fast_route was asked for a grid coordinate without a Cell record, and
\* +infinity came back.
C18_Witness ==
    /\ Scored /\ call.mode = "fast_route"
    /\ call.start \in Coords /\ ~HasCell(call.start)
    /\ ret.value.inf

\* The grid and the ring of coordinates around it.
Around == (-1 .. Cardinality(Rows)) \X (-1 .. MaxCol)

\* C19: the nodes of the built graph are the coordinates with a Cell record, and
\* there is an edge u -> v exactly when u and v both have a Cell record, v is in
\* the grid, and v is one of the four axis-aligned neighbours of u: no diagonal
\* edge, no self-loop, no edge into or out of a coordinate without a record.
C19_GraphStructure ==
    GraphBuilt =>
        /\ ret.graph.nodes = DOMAIN cell_index
        /\ DOMAIN ret.graph.weight \subseteq Around \X Around
        /\ \A u \in Around, v \in Around :
               <<u, v>> \in DOMAIN ret.graph.weight
                   <=> (HasCell(u) /\ HasCell(v) /\ v \in Coords /\ Step(u, v))

\* A graph was built for a grid with a missing cell next to a present one: it
\* has edges, and none between those two.
C19_Witness ==
    /\ GraphBuilt
    /\ DOMAIN ret.graph.weight # {}
    /\ \E u \in DOMAIN cell_index, h \in Coords \ DOMAIN cell_index :
           /\ Step(u, h)
           /\ <<u, h>> \notin DOMAIN ret.graph.weight
           /\ <<h, u>> \notin DOMAIN ret.graph.weight

\* C20: the weight of every edge u -> n of the graph built for a request of mode
\* m is 1.0 + score_cell(data, n, m): it depends on the cell entered and on the
\* mode of the request only.
C20_EdgeWeightByMode ==
    GraphBuilt =>
        \A e \in DOMAIN ret.graph.weight :
            ret.graph.weight[e]
                = base_step_cost + score_cell(e[2][1], e[2][2], call.mode).v

RowsScored == call.op = "danger_score_of_rows"

\* The field as the number it is, and 0 for a field that is none.
Zeroed(field) == IF field.tag = "num" THEN field.v ELSE 0

\* C21: a missing, None, non-numeric or not-a-number field read by danger_score
\* counts exactly as the number 0 and raises nothing: the score is finite and
\* is the score of the rows with 0 in the place of every such field, so that a
\* row without the field and a row with an unparseable one score the same.
C21_BadFieldCountsAsZero ==
    RowsScored =>
        /\ ret.raised = "none"
        /\ ret.value.tag = "num"
        /\ ret.value.v =
               danger_score(
                   [present |-> TRUE, depth_m |-> Zeroed(call.cell.depth_m)],
                   [i \in 1 .. Len(call.hazards) |->
                       [type |-> call.hazards[i].type,
                        severity |-> Zeroed(call.hazards[i].severity)]],
                   IF call.currents # <<>>
                   THEN <<[speed_mps |-> Zeroed(call.currents[1].speed_mps),
                           stability |-> Zeroed(call.currents[1].stability)]>>
                   ELSE <<>>)

\* Every coordinate of the rectangle the cells span has a Cell record.
DenseGrid ==
    DOMAIN cell_index = (0 .. MaxOf({k[1] : k \in DOMAIN cell_index}))
                            \X (0 .. MaxOf({k[2] : k \in DOMAIN cell_index}))

\* C22: on a grid where every coordinate of the rectangle has a Cell record,
\* find_route returns a non-empty path of finite cost for every pair of
\* in-bounds coordinates; and on any grid it returns no path only when an
\* endpoint has no record or no path of present cells joins the endpoints.
C22_DenseGridRoutes ==
    Routed =>
        /\ (DenseGrid /\ HasCell(call.start) /\ HasCell(call.end)) =>
               /\ ret.has_path
               /\ Len(ret.path) >= 1
               /\ ~ret.cost.inf
        /\ ~ret.has_path =>
               \/ ~HasCell(call.start)
               \/ ~HasCell(call.end)
               \/ AllPaths(call.start, call.end) = {}

\* A route between opposite corners of a dense grid with a hazard site.
C22_Witness ==
    /\ Routed /\ DenseGrid /\ DOMAIN cell_index = Coords
    /\ DOMAIN hazard_index # {}
    /\ call.start = <<0, 0>> /\ call.end = FarCorner
    /\ ret.has_path /\ Len(ret.path) >= 3 /\ ~ret.cost.inf

====
